---- MODULE Spec2Model ----
(***************************************************************************)
(* Model of the permission tree of src/src/lib.rs: a forest of nodes kept  *)
(* in `nodes` (key -> TreeNode) and `parent_map` (child key -> parent      *)
(* key), with a Public/Private permission and an optional tag set that     *)
(* are pushed down the tree on connect_nodes, move_subtree and             *)
(* add_tag_to_node.                                                        *)
(***************************************************************************)
EXTENDS Integers, FiniteSets, Sequences, TLC

\* Node keys (u32 ids) are drawn from 1..MaxKey.
MaxKey == 3
Keys == 1..MaxKey

\* The tags (String) the calls of add_tag_to_node are drawn from.
TagNames == {"tag"}
\* The tags of the specification SpecTags, which tells two tags apart.
MoreTagNames == {"tag", "other"}

\* Depth of nested calls the thread's stack holds.  Any value above MaxKey
\* lets every recursion over an acyclic tree of MaxKey nodes return.
StackLimit == MaxKey + 1

\* enum Permission
Permission == {"Public", "Private"}

\* Option<HashSet<String>>: None is the empty tuple, Some(s) the 1-tuple <<s>>.
None == <<>>
Some(s) == <<s>>
\* Option::clone().unwrap_or_else(HashSet::new)
unwrap_or_empty(o) == IF o = None THEN {} ELSE o[1]

\* a TreeNode built with an empty tag set in place of None
TreeNode_empty_tags(id, permission) ==
    [id |-> id, permission |-> permission, children |-> {}, tags |-> <<{}>>]

\* struct TreeNode, as built by add_node
TreeNode(id, permission) ==
    [id |-> id, permission |-> permission, children |-> {}, tags |-> None]

VARIABLES
    nodes,       \* Tree.nodes: HashMap<u32, TreeNode>
    parent_map,  \* Tree.parent_map: HashMap<u32, u32>
    stdout,      \* the last line printed, ids left as {} ("" before any)
    pc           \* "ready" between calls; "overflow" once a recursion has
                 \* exhausted the stack (the process aborts); "loops" once a
                 \* parent walk never ends

vars == <<nodes, parent_map, stdout, pc>>

\* Tree::new()
Init ==
    /\ nodes = [k \in {} |-> TreeNode(k, "Public")]
    /\ parent_map = [k \in {} |-> k]
    /\ stdout = ""
    /\ pc = "ready"

\* HashMap::insert
insert(m, k, v) == [x \in DOMAIN m \cup {k} |-> IF x = k THEN v ELSE m[x]]

\* Iteration orders of a HashSet: every sequence that lists s once.
orders_of(s) ==
    {q \in [1..Cardinality(s) -> s] : \A i, j \in DOMAIN q : q[i] = q[j] => i = j}

\* One iteration order for the child set of every node of ns.  A HashSet that
\* is not modified iterates in the same order each time, and propagation
\* modifies no child set, so one call sees one order per node.
RECURSIVE iter_orders_over(_, _)
iter_orders_over(ns, todo) ==
    IF todo = {} THEN {[k \in {} |-> <<>>]}
    ELSE LET k == CHOOSE x \in todo : TRUE
         IN {insert(f, k, q) : f \in iter_orders_over(ns, todo \ {k}),
                               q \in orders_of(ns[k].children)}
iter_orders(ns) == iter_orders_over(ns, DOMAIN ns)

\* What a recursive pass hands back: the nodes, and whether the stack ran out.
returned(ns) == [nodes |-> ns, overflow |-> FALSE]
overflowed(ns) == [nodes |-> ns, overflow |-> TRUE]

\* update_permission taking the permission of the parent, whatever the node has
update_permission_as_parent(ns, pm, ord, node_id, stack) ==
    IF node_id \in DOMAIN ns /\ node_id \in DOMAIN pm /\ pm[node_id] \in DOMAIN ns
    THEN returned([ns EXCEPT ![node_id].permission = ns[pm[node_id]].permission])
    ELSE returned(ns)

\* update_permission with the recursion into the children left out
update_permission_node_only(ns, pm, ord, node_id, stack) ==
    IF /\ node_id \in DOMAIN ns
       /\ ns[node_id].permission = "Public"
       /\ node_id \in DOMAIN pm
       /\ pm[node_id] \in DOMAIN ns
       /\ ns[pm[node_id]].permission = "Private"
    THEN returned([ns EXCEPT ![node_id].permission = "Private"])
    ELSE returned(ns)

RECURSIVE update_permission(_, _, _, _, _)
RECURSIVE update_permission_children(_, _, _, _, _)

\* update_permission making the parent of a Private node Private as well
update_permission_upward(ns, pm, ord, node_id, stack) ==
    IF stack = 0 THEN overflowed(ns)
    ELSE IF node_id \in DOMAIN ns /\ ns[node_id].permission = "Private"
    THEN IF node_id \in DOMAIN pm /\ pm[node_id] \in DOMAIN ns
         THEN returned([ns EXCEPT ![pm[node_id]].permission = "Private"])
         ELSE returned(ns)
    ELSE IF node_id \in DOMAIN ns
    THEN update_permission_children(
             update_permission_node_only(ns, pm, ord, node_id, stack).nodes,
             pm, ord, ord[node_id], stack - 1)
    ELSE returned(ns)

\* Tree::update_permission; stack is the number of frames still free.
update_permission(ns, pm, ord, node_id, stack) ==
    IF stack = 0 THEN overflowed(ns)
    ELSE IF node_id \in DOMAIN ns /\ ns[node_id].permission = "Private"
    THEN returned(ns)
    ELSE LET parent_private ==
                 /\ node_id \in DOMAIN pm
                 /\ pm[node_id] \in DOMAIN ns
                 /\ ns[pm[node_id]].permission = "Private"
                 /\ node_id \in DOMAIN ns
             ns1 == IF parent_private
                    THEN [ns EXCEPT ![node_id].permission = "Private"]
                    ELSE ns
         IN IF node_id \in DOMAIN ns1
            THEN update_permission_children(ns1, pm, ord, ord[node_id], stack - 1)
            ELSE returned(ns1)

\* the loop `for child_id in node.children.clone()` of update_permission
update_permission_children(ns, pm, ord, todo, stack) ==
    IF todo = <<>> THEN returned(ns)
    ELSE LET r == update_permission(ns, pm, ord, Head(todo), stack)
         IN IF r.overflow THEN r
            ELSE update_permission_children(r.nodes, pm, ord, Tail(todo), stack)

\* the tags update_tags reads from the parent of node_id
inherited_tags(ns, pm, node_id) ==
    IF node_id \in DOMAIN pm
    THEN IF pm[node_id] \in DOMAIN ns
         THEN unwrap_or_empty(ns[pm[node_id]].tags)
         ELSE {}
    ELSE {}

\* the merge of update_tags with the inherited tags replacing the node's own
merge_tags_replace(tags, inherited) ==
    IF inherited # {} THEN Some(inherited) ELSE tags

\* the merge of update_tags with the inherited tags dropped
merge_tags_own_only(tags, inherited) == tags

\* the merge of update_tags: extend a present set, create one only if needed
merge_tags(tags, inherited) ==
    IF tags # None THEN Some(tags[1] \cup inherited)
    ELSE IF inherited # {} THEN Some(inherited)
    ELSE None

\* update_tags with the recursion into the children left out
update_tags_node_only(ns, pm, ord, node_id, stack) ==
    IF node_id \in DOMAIN ns
    THEN returned([ns EXCEPT ![node_id].tags =
                      merge_tags(@, inherited_tags(ns, pm, node_id))])
    ELSE returned(ns)

\* update_tags handing the tags of the node to its parent as well
update_tags_upward(ns, pm, ord, node_id, stack) ==
    LET ns1 == update_tags_node_only(ns, pm, ord, node_id, stack).nodes
    IN IF node_id \in DOMAIN ns1 /\ node_id \in DOMAIN pm /\ pm[node_id] \in DOMAIN ns1
       THEN returned([ns1 EXCEPT ![pm[node_id]].tags =
                         merge_tags(@, unwrap_or_empty(ns1[node_id].tags))])
       ELSE returned(ns1)

RECURSIVE update_tags(_, _, _, _, _)
RECURSIVE update_tags_children(_, _, _, _, _)

\* update_tags with the short-circuit of update_permission: a node that holds
\* every inherited tag already is left without a visit to its children
update_tags_short_circuit(ns, pm, ord, node_id, stack) ==
    IF stack = 0 THEN overflowed(ns)
    ELSE IF node_id \notin DOMAIN ns THEN returned(ns)
    ELSE IF inherited_tags(ns, pm, node_id) \subseteq unwrap_or_empty(ns[node_id].tags)
    THEN returned(ns)
    ELSE update_tags_children(
             [ns EXCEPT ![node_id].tags = merge_tags(@, inherited_tags(ns, pm, node_id))],
             pm, ord, ord[node_id], stack - 1)

\* Tree::update_tags; stack is the number of frames still free.
update_tags(ns, pm, ord, node_id, stack) ==
    IF stack = 0 THEN overflowed(ns)
    ELSE LET inherited == inherited_tags(ns, pm, node_id)
             ns1 == IF node_id \in DOMAIN ns
                    THEN [ns EXCEPT ![node_id].tags = merge_tags(@, inherited)]
                    ELSE ns
         IN IF node_id \in DOMAIN ns1
            THEN update_tags_children(ns1, pm, ord, ord[node_id], stack - 1)
            ELSE returned(ns1)

\* the loop `for child_id in children` of update_tags
update_tags_children(ns, pm, ord, todo, stack) ==
    IF todo = <<>> THEN returned(ns)
    ELSE LET r == update_tags(ns, pm, ord, Head(todo), stack)
         IN IF r.overflow THEN r
            ELSE update_tags_children(r.nodes, pm, ord, Tail(todo), stack)

\* update_permission(id); update_tags(id): the tail of connect_nodes and of
\* move_subtree.  An overflow aborts the process, so update_tags never runs
\* after update_permission overflowed.
propagate(ns, pm, ord, id) ==
    LET r == update_permission(ns, pm, ord, id, StackLimit)
    IN IF r.overflow THEN r ELSE update_tags(r.nodes, pm, ord, id, StackLimit)

\* The while loop of Tree::is_descendant, from current_id upward.  A walk of
\* more steps than parent_map has entries has met a key twice and never ends.
RECURSIVE walk_parents(_, _, _, _)
walk_parents(pm, node_id, current_id, steps) ==
    IF current_id \notin DOMAIN pm THEN "false"
    ELSE IF pm[current_id] = node_id THEN "true"
    ELSE IF steps = 0 THEN "loops"
    ELSE walk_parents(pm, node_id, pm[current_id], steps - 1)

\* is_descendant counting a node among its own descendants
is_descendant_reflexive(pm, node_id, potential_descendant_id) ==
    IF node_id = potential_descendant_id THEN "true"
    ELSE walk_parents(pm, node_id, potential_descendant_id, Cardinality(DOMAIN pm))

\* is_descendant with its two arguments taken the other way round
is_descendant_swapped(pm, node_id, potential_descendant_id) ==
    walk_parents(pm, potential_descendant_id, node_id, Cardinality(DOMAIN pm))

\* is_descendant looking at the direct parent only
is_descendant_parent_only(pm, node_id, potential_descendant_id) ==
    IF potential_descendant_id \in DOMAIN pm /\ pm[potential_descendant_id] = node_id
    THEN "true"
    ELSE "false"

\* Tree::is_descendant: "true", "false", or "loops" when the walk never ends
is_descendant(pm, node_id, potential_descendant_id) ==
    walk_parents(pm, node_id, potential_descendant_id, Cardinality(DOMAIN pm))

\* the search of main.rs looking at the direct children only
is_descendant_search_children_only(ns, ord, node_id, potential_descendant_id, stack) ==
    IF node_id \in DOMAIN ns /\ potential_descendant_id \in ns[node_id].children
    THEN "true"
    ELSE "false"

\* Tree::is_descendant of main.rs: the search of the child sets under node_id,
\* run on the nodes of the library; "overflow" when the stack runs out.
RECURSIVE is_descendant_search(_, _, _, _, _)
RECURSIVE is_descendant_search_children(_, _, _, _, _)
is_descendant_search(ns, ord, node_id, potential_descendant_id, stack) ==
    IF stack = 0 THEN "overflow"
    ELSE IF node_id \in DOMAIN ns
    THEN IF potential_descendant_id \in ns[node_id].children
         THEN "true"
         ELSE is_descendant_search_children(ns, ord, ord[node_id],
                                            potential_descendant_id, stack - 1)
    ELSE "false"

\* the loop `for &child_id in &node.children` of the search, left at the
\* first child that answers true
is_descendant_search_children(ns, ord, todo, potential_descendant_id, stack) ==
    IF todo = <<>> THEN "false"
    ELSE LET r == is_descendant_search(ns, ord, Head(todo),
                                       potential_descendant_id, stack)
         IN IF r # "false" THEN r
            ELSE is_descendant_search_children(ns, ord, Tail(todo),
                                               potential_descendant_id, stack)

\* add_node inserting without looking for the key first
add_node_overwrite(id, permission) ==
    /\ pc = "ready"
    /\ nodes' = insert(nodes, id, TreeNode(id, permission))
    /\ stdout' = "Node with ID {} added with {:?} permission"
    /\ UNCHANGED <<parent_map, pc>>

\* Tree::add_node
add_node(id, permission) ==
    /\ pc = "ready"
    /\ IF id \in DOMAIN nodes
       THEN /\ stdout' = "Node with ID {} already exists"
            /\ UNCHANGED <<nodes, parent_map, pc>>
       ELSE /\ nodes' = insert(nodes, id, TreeNode(id, permission))
            /\ stdout' = "Node with ID {} added with {:?} permission"
            /\ UNCHANGED <<parent_map, pc>>

\* the match of add_tag_to_node: insert into a present set, else create one
insert_tag(tags, tag) ==
    IF tags # None THEN Some(tags[1] \cup {tag}) ELSE Some({tag})

\* Tree::add_tag_to_node
add_tag_to_node(id, tag) ==
    /\ pc = "ready"
    /\ IF id \in DOMAIN nodes
       THEN LET ns1 == [nodes EXCEPT ![id].tags = insert_tag(@, tag)]
            IN /\ UNCHANGED <<parent_map, stdout>>
               /\ \E ord \in iter_orders(ns1) :
                    LET r == update_tags(ns1, parent_map, ord, id, StackLimit)
                    IN /\ nodes' = r.nodes
                       /\ pc' = IF r.overflow THEN "overflow" ELSE "ready"
       ELSE /\ stdout' = "Node with ID {} does not exist"
            /\ UNCHANGED <<nodes, parent_map, pc>>

\* the guards of connect_nodes without the two checks on the child
connect_nodes_check_existence_only(ns, pm, parent_id, child_id) ==
    IF parent_id \notin DOMAIN ns \/ child_id \notin DOMAIN ns
    THEN "Either parent or child node doesn't exist"
    ELSE ""

\* The guards of Tree::connect_nodes, in the order of the code: the line the
\* call prints when it declines, "" when it goes on.
connect_nodes_check(ns, pm, parent_id, child_id) ==
    IF parent_id \notin DOMAIN ns \/ child_id \notin DOMAIN ns
    THEN "Either parent or child node doesn't exist"
    ELSE IF parent_id = child_id
    THEN "A node cannot be its own parent"
    ELSE IF child_id \in DOMAIN pm
    THEN "Node {} already has a parent"
    ELSE ""

\* Tree::connect_nodes
connect_nodes(parent_id, child_id) ==
    /\ pc = "ready"
    /\ IF connect_nodes_check(nodes, parent_map, parent_id, child_id) # ""
       THEN /\ stdout' = connect_nodes_check(nodes, parent_map, parent_id, child_id)
            /\ UNCHANGED <<nodes, parent_map, pc>>
       ELSE LET linked == parent_id \in DOMAIN nodes
                ns1 == IF linked
                       THEN [nodes EXCEPT ![parent_id].children = @ \cup {child_id}]
                       ELSE nodes
                pm1 == IF linked
                       THEN insert(parent_map, child_id, parent_id)
                       ELSE parent_map
            IN /\ parent_map' = pm1
               /\ stdout' = IF linked
                            THEN "Node {} connected as child of {}"
                            ELSE stdout
               /\ \E ord \in iter_orders(ns1) :
                    LET r == propagate(ns1, pm1, ord, child_id)
                    IN /\ nodes' = r.nodes
                       /\ pc' = IF r.overflow THEN "overflow" ELSE "ready"

\* the guards of move_subtree without the lookup of the two keys
move_subtree_check_no_lookup(ns, pm, node_id, new_parent_id) ==
    IF is_descendant(pm, node_id, new_parent_id) = "loops"
    THEN "loops"
    ELSE IF is_descendant(pm, node_id, new_parent_id) = "true"
    THEN "Cannot move a node into its own subtree"
    ELSE ""

\* The guards of Tree::move_subtree, in the order of the code: the line the
\* call prints when it declines, "" when it goes on, "loops" when the walk of
\* is_descendant never ends.
move_subtree_check(ns, pm, node_id, new_parent_id) ==
    IF node_id \notin DOMAIN ns \/ new_parent_id \notin DOMAIN ns
    THEN "Either node or new parent doesn't exist"
    ELSE IF is_descendant(pm, node_id, new_parent_id) = "loops"
    THEN "loops"
    ELSE IF is_descendant(pm, node_id, new_parent_id) = "true"
    THEN "Cannot move a node into its own subtree"
    ELSE ""

\* move_subtree dropping the tags of node_id when it leaves its former parent
detach_clearing_tags(ns, pm, node_id) ==
    IF node_id \in DOMAIN pm /\ pm[node_id] \in DOMAIN ns
    THEN [ns EXCEPT ![pm[node_id]].children = @ \ {node_id},
                    ![node_id].tags = None]
    ELSE ns

\* move_subtree leaving node_id among its former parent's children
detach_forgotten(ns, pm, node_id) == ns

\* move_subtree: remove node_id from its current parent's children
detach(ns, pm, node_id) ==
    IF node_id \in DOMAIN pm /\ pm[node_id] \in DOMAIN ns
    THEN [ns EXCEPT ![pm[node_id]].children = @ \ {node_id}]
    ELSE ns

\* move_subtree: insert node_id into the new parent's children
attach(ns, node_id, new_parent_id) ==
    IF new_parent_id \in DOMAIN ns
    THEN [ns EXCEPT ![new_parent_id].children = @ \cup {node_id}]
    ELSE ns

\* Tree::move_subtree
move_subtree(node_id, new_parent_id) ==
    /\ pc = "ready"
    /\ IF move_subtree_check(nodes, parent_map, node_id, new_parent_id) = "loops"
       THEN /\ pc' = "loops"
            /\ UNCHANGED <<nodes, parent_map, stdout>>
       ELSE IF move_subtree_check(nodes, parent_map, node_id, new_parent_id) # ""
       THEN /\ stdout' = move_subtree_check(nodes, parent_map, node_id, new_parent_id)
            /\ UNCHANGED <<nodes, parent_map, pc>>
       ELSE LET ns1 == attach(detach(nodes, parent_map, node_id), node_id, new_parent_id)
                pm1 == insert(parent_map, node_id, new_parent_id)
            IN /\ parent_map' = pm1
               /\ \E ord \in iter_orders(ns1) :
                    LET r == propagate(ns1, pm1, ord, node_id)
                    IN /\ nodes' = r.nodes
                       /\ IF r.overflow
                          THEN pc' = "overflow" /\ UNCHANGED stdout
                          ELSE /\ pc' = "ready"
                               /\ stdout' = "Moved subtree rooted at node {} to new parent node {}"

Next ==
    \/ \E id \in Keys, permission \in Permission : add_node(id, permission)
    \/ \E id \in Keys, tag \in TagNames : add_tag_to_node(id, tag)
    \/ \E parent_id, child_id \in Keys : connect_nodes(parent_id, child_id)
    \/ \E node_id, new_parent_id \in Keys : move_subtree(node_id, new_parent_id)

Spec == Init /\ [][Next]_vars

\* The same calls with two tags to tell apart and Public nodes only: no line of
\* update_tags or add_tag_to_node reads a permission.
NextTags ==
    \/ \E id \in Keys : add_node(id, "Public")
    \/ \E id \in Keys, tag \in MoreTagNames : add_tag_to_node(id, tag)
    \/ \E parent_id, child_id \in Keys : connect_nodes(parent_id, child_id)
    \/ \E node_id, new_parent_id \in Keys : move_subtree(node_id, new_parent_id)

SpecTags == Init /\ [][NextTags]_vars

----------------------------------------------------------------------------
\* Vocabulary of the properties.

\* the tree itself: everything but the printed line
tree == <<nodes, parent_map, pc>>

\* the keys reached from the keys of s through child sets, s included
RECURSIVE child_closure(_, _)
child_closure(ns, s) ==
    LET t == s \cup UNION {ns[k].children : k \in s \cap DOMAIN ns}
    IN IF t = s THEN s ELSE child_closure(ns, t)

\* the keys reached from n through one or more child links
Descendants(ns, n) == child_closure(ns, ns[n].children)

\* the tags a node holds, none when the set is absent
TagsOf(ns, n) == unwrap_or_empty(ns[n].tags)

\* the keys reached from the keys of s through parent links, s included
RECURSIVE parent_closure(_, _)
parent_closure(pm, s) ==
    LET t == s \cup {pm[k] : k \in s \cap DOMAIN pm}
    IN IF t = s THEN s ELSE parent_closure(pm, t)

\* the keys reached from b through one or more parent links
Ancestors(pm, b) == IF b \in DOMAIN pm THEN parent_closure(pm, {pm[b]}) ELSE {}

\* no set of keys is closed under the parent link: every walk upward ends
Acyclic(pm) ==
    \A s \in SUBSET DOMAIN pm : s # {} => \E k \in s : pm[k] \notin s

\* a call of connect_nodes(p, c) that linked the nodes and returned (the
\* cheap conjuncts come first; they follow from the last one)
Connected(p, c) ==
    /\ stdout' = "Node {} connected as child of {}"
    /\ pc' = "ready"
    /\ c \in DOMAIN parent_map' /\ parent_map'[c] = p
    /\ connect_nodes(p, c)

\* a call of move_subtree(x, y) that moved the subtree and returned
Moved(x, y) ==
    /\ stdout' = "Moved subtree rooted at node {} to new parent node {}"
    /\ pc' = "ready"
    /\ x \in DOMAIN parent_map' /\ parent_map'[x] = y
    /\ move_subtree(x, y)

\* a call of add_tag_to_node(k, t) on an existing node that returned
Tagged(k, t) ==
    /\ k \in DOMAIN nodes
    /\ pc' = "ready"
    /\ stdout' = stdout
    /\ add_tag_to_node(k, t)

\* C1: the parent map is acyclic after any sequence of add_node, connect_nodes,
\* add_tag_to_node and move_subtree calls: following parent links from any
\* node reaches a node with no parent and never revisits a node.
C1_ParentMapAcyclic == Acyclic(parent_map)

\* C2: child sets and parent map agree in both directions: parent_map[c] = p
\* exactly when c is in the child set of node p.
C2_ChildrenAgreeWithParentMap ==
    \A c, p \in Keys :
        (c \in DOMAIN parent_map /\ parent_map[c] = p)
            <=> (p \in DOMAIN nodes /\ c \in nodes[p].children)

\* a call of move_subtree gave a node that had a parent another parent
C2_Witness ==
    /\ stdout = "Moved subtree rooted at node {} to new parent node {}"
    /\ \E c \in DOMAIN parent_map :
           /\ nodes[parent_map[c]].children = {c}
           /\ \E q \in DOMAIN nodes \ {c, parent_map[c]} :
                  q \in DOMAIN parent_map /\ nodes[q].children = {}

\* C3: after every completed call, every node whose permission is Private has
\* only Private descendants.
C3_PrivateSubtreeIsPrivate ==
    pc = "ready" =>
        \A n \in DOMAIN nodes :
            nodes[n].permission = "Private" =>
                \A d \in Descendants(nodes, n) : nodes[d].permission = "Private"

\* a subtree of two levels hangs under a Private node after a move
C3_Witness ==
    /\ pc = "ready"
    /\ stdout = "Moved subtree rooted at node {} to new parent node {}"
    /\ \E n \in DOMAIN nodes :
           /\ nodes[n].permission = "Private"
           /\ n \notin DOMAIN parent_map
           /\ \E c \in nodes[n].children : nodes[c].children # {}

\* C4: after every completed call, every tag of a node's parent is a tag of
\* the node.
C4_TagsContainParentTags ==
    pc = "ready" =>
        \A n \in DOMAIN parent_map :
            TagsOf(nodes, parent_map[n]) \subseteq TagsOf(nodes, n)

\* a node two levels down holds a tag of its parent
C4_Witness ==
    \E n \in DOMAIN parent_map :
        /\ pc = "ready"
        /\ parent_map[n] \in DOMAIN parent_map
        /\ TagsOf(nodes, parent_map[n]) # {}
        /\ TagsOf(nodes, parent_map[n]) \subseteq TagsOf(nodes, n)

\* C5: move_subtree(x, x) is rejected for every existing node x and leaves
\* nodes, child sets, parent map, permissions and tags unchanged.
C5_MoveUnderItselfRejected ==
    [][\A x \in Keys :
          (x \in DOMAIN nodes /\ move_subtree(x, x)) =>
              /\ stdout' = "Cannot move a node into its own subtree"
              /\ UNCHANGED tree]_vars

\* C6: move_subtree(x, y) with y reached from x through one or more child
\* links is rejected and leaves the tree unchanged.
C6_MoveUnderDescendantRejected ==
    [][\A x, y \in Keys :
          (x \in DOMAIN nodes /\ y \in Descendants(nodes, x) /\ move_subtree(x, y)) =>
              /\ stdout' = "Cannot move a node into its own subtree"
              /\ UNCHANGED tree]_vars

\* a move was declined in a tree that has a chain of three nodes
C6_Witness ==
    /\ pc = "ready"
    /\ stdout = "Cannot move a node into its own subtree"
    /\ \E x \in DOMAIN nodes : \E c \in nodes[x].children : nodes[c].children # {}

\* C7: connect_nodes(p, c) is rejected and leaves the whole state unchanged
\* whenever p = c or c already has an entry in the parent map.
C7_ConnectRejected ==
    [][\A p, c \in Keys :
          ((p = c \/ c \in DOMAIN parent_map) /\ connect_nodes(p, c)) =>
              /\ stdout' \in {"Either parent or child node doesn't exist",
                              "A node cannot be its own parent",
                              "Node {} already has a parent"}
              /\ UNCHANGED tree]_vars

\* a connect was declined because the child had a parent
C7_Witness ==
    /\ pc = "ready"
    /\ stdout = "Node {} already has a parent"
    /\ \E n \in DOMAIN nodes : n \notin DOMAIN parent_map /\ nodes[n].children = {}

\* C8: every call of add_node, connect_nodes, add_tag_to_node, move_subtree and
\* is_descendant returns, from every reachable state.
C8_EveryCallReturns == pc = "ready"

\* C9: connect_nodes, move_subtree and add_tag_to_node with a key of no node
\* are no-ops: no node is created, nothing changes.
C9_MissingKeyIsNoOp ==
    [][/\ \A a, b \in Keys :
              ((a \notin DOMAIN nodes \/ b \notin DOMAIN nodes)
                  /\ (connect_nodes(a, b) \/ move_subtree(a, b))) => UNCHANGED tree
       /\ \A k \in Keys, t \in TagNames :
              (k \notin DOMAIN nodes /\ add_tag_to_node(k, t)) => UNCHANGED tree]_vars

\* add_tag_to_node was declined in a tree that has nodes
C9_Witness ==
    /\ pc = "ready"
    /\ stdout = "Node with ID {} does not exist"
    /\ parent_map # <<>>

\* C10: add_node with a key that already exists is a no-op, whatever the
\* permission asked for.
C10_AddExistingIsNoOp ==
    [][\A id \in Keys, permission \in Permission :
          (id \in DOMAIN nodes /\ add_node(id, permission)) => UNCHANGED tree]_vars

\* add_node was declined while every node has tags and one has children
C10_Witness ==
    /\ pc = "ready"
    /\ stdout = "Node with ID {} already exists"
    /\ \A n \in DOMAIN nodes : nodes[n].tags # None
    /\ \E n \in DOMAIN nodes : nodes[n].children # {}

\* C11: after a successful connect_nodes(p, c) or move_subtree(c, p), the tag
\* set of c is the union of the tags c had and the tags p had at the call; it
\* stays absent only if both were absent.
C11_ChildTagsAreUnion ==
    [][\A p, c \in Keys :
          (Connected(p, c) \/ Moved(c, p)) =>
              nodes'[c].tags =
                  IF nodes[c].tags = None /\ nodes[p].tags = None
                  THEN None
                  ELSE Some(TagsOf(nodes, c) \cup TagsOf(nodes, p))]_vars

\* a connected child holds its own tag and the tag of its parent
C11_Witness ==
    /\ pc = "ready"
    /\ stdout = "Node {} connected as child of {}"
    /\ \E c \in DOMAIN parent_map :
           /\ TagsOf(nodes, parent_map[c]) = {"tag"}
           /\ TagsOf(nodes, c) = {"tag", "other"}

\* C12: after add_tag_to_node(k, t) on an existing node k, t is a tag of k and
\* of every descendant of k, at any depth.
C12_TagReachesSubtree ==
    [][\A k \in Keys, t \in MoreTagNames :
          Tagged(k, t) =>
              /\ t \in TagsOf(nodes', k)
              /\ \A d \in Descendants(nodes, k) : t \in TagsOf(nodes', d)]_vars

\* a root without the tag "tag" has a child and a grandchild that hold "other"
\* with it: "other" came down from the root, "tag" did not
C12_Witness ==
    /\ pc = "ready"
    /\ \E k \in DOMAIN nodes \ DOMAIN parent_map :
           /\ TagsOf(nodes, k) = {"other"}
           /\ \E c \in nodes[k].children :
                  /\ "other" \in TagsOf(nodes, c)
                  /\ \E g \in nodes[c].children : TagsOf(nodes, g) = {"tag", "other"}

\* C13: visibility is irreversible: a node that is Private before a call is
\* Private after it.
C13_PrivateStaysPrivate ==
    [][\A n \in DOMAIN nodes :
          nodes[n].permission = "Private" =>
              n \in DOMAIN nodes' /\ nodes'[n].permission = "Private"]_vars

\* a Private node was moved under a Public parent and is still Private
C13_Witness ==
    /\ pc = "ready"
    /\ stdout = "Moved subtree rooted at node {} to new parent node {}"
    /\ \E n \in DOMAIN parent_map :
           /\ nodes[n].permission = "Private"
           /\ nodes[parent_map[n]].permission = "Public"
           /\ nodes[n].children # {}

\* C14: tag sets never shrink: every tag a node holds before a call it holds
\* after it, and a present tag set never becomes absent.
C14_TagsNeverShrink ==
    [][\A n \in DOMAIN nodes :
          /\ n \in DOMAIN nodes'
          /\ nodes[n].tags # None => nodes'[n].tags # None
          /\ TagsOf(nodes, n) \subseteq TagsOf(nodes', n)]_vars

\* after a move a node with children holds two tags under a parent without
\* tags, while another root holds one of them
C14_Witness ==
    /\ pc = "ready"
    /\ stdout = "Moved subtree rooted at node {} to new parent node {}"
    /\ \E n \in DOMAIN parent_map :
           /\ TagsOf(nodes, n) = {"tag", "other"}
           /\ nodes[parent_map[n]].tags = None
           /\ \E q \in DOMAIN nodes \ DOMAIN parent_map :
                  q # parent_map[n] /\ TagsOf(nodes, q) = {"tag"}

\* C15: add_node(key, permission) with a key not yet present adds exactly one
\* node with that key, the given permission, no children, no tag set and no
\* parent, and leaves every other node and the parent map unchanged.
C15_AddNodeAddsOneNode ==
    [][\A id \in Keys, permission \in Permission :
          (id \notin DOMAIN nodes /\ add_node(id, permission)) =>
              /\ DOMAIN nodes' = DOMAIN nodes \cup {id}
              /\ nodes'[id].id = id
              /\ nodes'[id].permission = permission
              /\ nodes'[id].children = {}
              /\ nodes'[id].tags = None
              /\ id \notin DOMAIN parent_map'
              /\ \A k \in DOMAIN nodes : nodes'[k] = nodes[k]
              /\ parent_map' = parent_map
              /\ pc' = "ready"]_vars

\* a node was added next to a parent and child that hold a tag
C15_Witness ==
    /\ pc = "ready"
    /\ stdout = "Node with ID {} added with {:?} permission"
    /\ \E n \in DOMAIN nodes \ DOMAIN parent_map :
           /\ nodes[n].children = {} /\ nodes[n].tags = None
           /\ nodes[n].permission = "Private"
    /\ \E c \in DOMAIN parent_map : nodes[c].tags # None

\* what C16 says of the state after connect_nodes(p, c): c is a child of p,
\* and no other parent-map entry or child-set membership has changed
LinkedOnly(p, c) ==
    /\ c \in nodes'[p].children
    /\ c \in DOMAIN parent_map' /\ parent_map'[c] = p
    /\ DOMAIN parent_map' = DOMAIN parent_map \cup {c}
    /\ \A k \in DOMAIN parent_map : parent_map'[k] = parent_map[k]
    /\ DOMAIN nodes' = DOMAIN nodes
    /\ \A k \in DOMAIN nodes :
           nodes'[k].children =
               IF k = p THEN nodes[k].children \cup {c} ELSE nodes[k].children

\* C16: connect_nodes(p, c) succeeds whenever p and c both exist, p # c and c
\* has no parent; afterwards c is in p's child set, parent_map[c] = p, and the
\* parent-map entry and child-set membership of every other node are unchanged.
C16_ConnectSucceeds ==
    [][\A p, c \in Keys :
          (/\ p \in DOMAIN nodes /\ c \in DOMAIN nodes
           /\ p # c /\ c \notin DOMAIN parent_map
           /\ connect_nodes(p, c)) =>
              /\ pc' = "ready"
              /\ stdout' = "Node {} connected as child of {}"
              /\ LinkedOnly(p, c)]_vars

\* C17: move_subtree(x, y) is applied whenever x and y both exist and y is
\* neither x nor a descendant of x; afterwards parent_map[x] = y, x is in y's
\* child set and in no other, and the parent of every other node is unchanged,
\* so the subtree under x keeps its structure.
C17_MoveApplied ==
    [][\A x, y \in Keys :
          (/\ x \in DOMAIN nodes /\ y \in DOMAIN nodes
           /\ y # x /\ y \notin Descendants(nodes, x)
           /\ move_subtree(x, y)) =>
              /\ pc' = "ready"
              /\ stdout' = "Moved subtree rooted at node {} to new parent node {}"
              /\ DOMAIN nodes' = DOMAIN nodes
              /\ DOMAIN parent_map' = DOMAIN parent_map \cup {x}
              /\ parent_map'[x] = y
              /\ \A k \in DOMAIN nodes : x \in nodes'[k].children <=> k = y
              /\ \A k \in DOMAIN parent_map \ {x} : parent_map'[k] = parent_map[k]
              /\ \A k \in DOMAIN nodes :
                     nodes'[k].children \ {x} = nodes[k].children \ {x}
              /\ Descendants(nodes', x) = Descendants(nodes, x)]_vars

\* a node that has a child was moved under a parent
C17_Witness ==
    /\ pc = "ready"
    /\ stdout = "Moved subtree rooted at node {} to new parent node {}"
    /\ \E x \in DOMAIN parent_map :
           /\ nodes[x].children # {}
           /\ nodes[parent_map[x]].children = {x}

\* C18: add_tag_to_node(k, t) changes only the tag sets of k and of k's
\* descendants: the tags of every other node, all permissions, all child sets
\* and the parent map are unchanged.
C18_AddTagTouchesSubtreeTagsOnly ==
    [][\A k \in Keys, t \in TagNames :
          (k \in DOMAIN nodes /\ add_tag_to_node(k, t)) =>
              /\ parent_map' = parent_map
              /\ DOMAIN nodes' = DOMAIN nodes
              /\ \A n \in DOMAIN nodes :
                     /\ nodes'[n].permission = nodes[n].permission
                     /\ nodes'[n].children = nodes[n].children
                     /\ nodes'[n].id = nodes[n].id
                     /\ n \notin {k} \cup Descendants(nodes, k) =>
                            nodes'[n].tags = nodes[n].tags]_vars

\* a Private child holds a tag that neither its Public parent nor its sibling has
C18_Witness ==
    /\ pc = "ready"
    /\ \E n \in DOMAIN parent_map :
           /\ nodes[n].tags # None
           /\ nodes[n].permission = "Private"
           /\ nodes[parent_map[n]].tags = None
           /\ nodes[parent_map[n]].permission = "Public"
           /\ \E q \in nodes[parent_map[n]].children \ {n} : nodes[q].tags = None

\* C19: between calls, is_descendant(a, b) returns true exactly when a is
\* reached from b by one or more parent links, and false when a = b, when
\* either key is no node, or when a is not on b's parent chain.
C19_IsDescendantIsProperAncestry ==
    pc = "ready" =>
        \A a, b \in Keys :
            /\ is_descendant(parent_map, a, b) =
                   (IF a \in Ancestors(parent_map, b) THEN "true" ELSE "false")
            /\ (a = b \/ a \notin DOMAIN nodes \/ b \notin DOMAIN nodes) =>
                   is_descendant(parent_map, a, b) = "false"

\* is_descendant answers true for a grandparent and false the other way round
C19_Witness ==
    /\ pc = "ready"
    /\ \E a, b \in DOMAIN nodes :
           /\ is_descendant(parent_map, a, b) = "true"
           /\ parent_map[b] # a
           /\ is_descendant(parent_map, b, a) = "false"
           /\ is_descendant(parent_map, parent_map[b], a) = "false"

\* C20: the two cycle checks agree: between calls, for every pair of keys
\* (a, b), the search of the child sets under a for b (main.rs) and the walk
\* from b up the parent map looking for a (lib.rs) return the same boolean.
C20_SearchAgreesWithWalk ==
    pc = "ready" =>
        \A ord \in iter_orders(nodes) : \A a, b \in Keys :
            is_descendant_search(nodes, ord, a, b, StackLimit)
                = is_descendant(parent_map, a, b)

\* both checks answer true for a grandchild that is not the first child looked at
C20_Witness ==
    /\ pc = "ready"
    /\ \E a, b \in DOMAIN nodes :
           /\ b \in DOMAIN parent_map /\ parent_map[b] # a
           /\ is_descendant(parent_map, a, b) = "true"
           /\ \A ord \in iter_orders(nodes) :
                  is_descendant_search(nodes, ord, a, b, StackLimit) = "true"
    /\ \E a, b \in DOMAIN nodes :
           /\ a # b
           /\ is_descendant(parent_map, a, b) = "false"
           /\ \A ord \in iter_orders(nodes) :
                  is_descendant_search(nodes, ord, a, b, StackLimit) = "false"

\* C21: tag propagation is idempotent: after every completed call, update_tags
\* run again from any node changes nothing, and add_tag_to_node(k, t) called
\* a second time right after the first leaves the state of the first.
C21_TagPropagationIdempotent ==
    /\ [](pc = "ready" =>
             \A ord \in iter_orders(nodes) : \A n \in Keys :
                 update_tags(nodes, parent_map, ord, n, StackLimit) = returned(nodes))
    /\ [][\A k \in Keys, t \in MoreTagNames :
              Tagged(k, t) =>
                  \A ord \in iter_orders(nodes') :
                      update_tags([nodes' EXCEPT ![k].tags = insert_tag(@, t)],
                                  parent_map', ord, k, StackLimit)
                          = returned(nodes')]_vars

\* between calls a chain of three nodes holds tags at every level, the lower
\* two a tag more than the root
C21_Witness ==
    /\ pc = "ready"
    /\ \E k \in DOMAIN nodes \ DOMAIN parent_map :
           /\ TagsOf(nodes, k) = {"tag"}
           /\ \E c \in nodes[k].children :
                  /\ TagsOf(nodes, c) = {"tag", "other"}
                  /\ \E g \in nodes[c].children : TagsOf(nodes, g) = {"tag", "other"}

\* C22: a successful connect_nodes(p, c) or move_subtree(c, p) changes
\* permissions only inside the subtree rooted at c: every node outside it
\* keeps its permission; if p and c are Public no node changes permission; if
\* p is Private, c and every descendant of c are Private afterwards.
C22_PermissionChangesInsideSubtree ==
    [][\A p, c \in Keys :
          (Connected(p, c) \/ Moved(c, p)) =>
              /\ DOMAIN nodes' = DOMAIN nodes
              /\ \A n \in DOMAIN nodes \ ({c} \cup Descendants(nodes, c)) :
                     nodes'[n].permission = nodes[n].permission
              /\ (nodes[p].permission = "Public" /\ nodes[c].permission = "Public") =>
                     \A n \in DOMAIN nodes : nodes'[n].permission = nodes[n].permission
              /\ nodes[p].permission = "Private" =>
                     \A n \in {c} \cup Descendants(nodes', c) :
                         nodes'[n].permission = "Private"]_vars

\* a node with a child was connected under a Private root; both are Private
C22_Witness ==
    /\ pc = "ready"
    /\ stdout = "Node {} connected as child of {}"
    /\ \E c \in DOMAIN parent_map :
           /\ parent_map[c] \notin DOMAIN parent_map
           /\ nodes[parent_map[c]].permission = "Private"
           /\ nodes[c].permission = "Private"
           /\ \E g \in nodes[c].children : nodes[g].permission = "Private"
====
